---------------------------- MODULE Spec2Model ----------------------------
(***************************************************************************)
(* A model of `clean` (black-desk/clean, src/main.rs): a directory-scoped  *)
(* linter for whitespace and line-ending defects.                          *)
(*                                                                         *)
(* Text (file content, paths, glob patterns) is a sequence of              *)
(* one-character strings, so that splitting, trimming, prefix tests and    *)
(* glob matching are computed the way the code computes them.              *)
(*                                                                         *)
(* Three specifications share the module:                                  *)
(*   Spec        one run of main(): scan of every root, then the report    *)
(*   SpecLint    lint_file applied to every bounded content                *)
(*   SpecIgnore  should_ignore applied to bounded paths and pattern lists  *)
(***************************************************************************)
EXTENDS Integers, Sequences, FiniteSets, TLC

VARIABLES
    cli,            \* the parsed command line (struct Cli), read-only
    fs,             \* the file system and git state the run observes
    pc,             \* position of main(): "dir","walk","open","render","write","done";
                    \* of a single call in SpecLint and SpecIgnore: "call","returned"
    di,             \* index in cli.dirs of the root being processed
    fi,             \* index of the next walk entry of that root
    tracked_files,  \* Option<HashSet<String>>: None or Some(set of paths)
    all_issues,     \* Vec<Issue>
    pending,        \* report chunks rendered and not yet written
    written,        \* report chunks the destination has received
    dest,           \* caller's output file: "untouched" or "truncated"
    outcome,        \* "running", "ok" (exit 0) or the error that ended the run
    log,            \* history of what the run has done, one event per step
    content,        \* SpecLint: the content given to lint_file
    issues,         \* SpecLint: what lint_file returned
    ipath,          \* SpecIgnore: the path given to should_ignore
    ignores,        \* SpecIgnore: the pattern list given to should_ignore
    verdict         \* SpecIgnore: what should_ignore returned

vars == <<cli, fs, pc, di, fi, tracked_files, all_issues, pending, written,
          dest, outcome, log, content, issues, ipath, ignores, verdict>>

runVars == <<cli, fs, pc, di, fi, tracked_files, all_issues, pending, written,
             dest, outcome, log>>
lintVars == <<content, issues>>
ignoreVars == <<ipath, ignores, verdict>>

---------------------------------------------------------------------------
(* Bounds *)

\* longest content given to lint_file in SpecLint
MaxLen == 5
\* most roots on one command line
MaxDirs == 2
\* most patterns in one ignore list of SpecIgnore
MaxIgnore == 2

---------------------------------------------------------------------------
(* Text *)

LF == "\n"
CR == "\r"
None == "None"

\* the characters contents are drawn from
Chars == {"a", " ", LF, CR}

\* char::is_whitespace, on the modelled alphabet
is_whitespace(c) == c \in {" ", "\t", LF, CR}

RECURSIVE trim_end(_)
\* str::trim_end
trim_end(s) ==
    IF s = <<>> THEN s
    ELSE IF is_whitespace(s[Len(s)]) THEN trim_end(SubSeq(s, 1, Len(s) - 1))
    ELSE s

RECURSIVE split(_)
\* content.split('\n').collect(): always at least one segment
split(s) ==
    IF \A i \in 1..Len(s) : s[i] # LF THEN <<s>>
    ELSE LET i == CHOOSE k \in 1..Len(s) :
                      s[k] = LF /\ \A j \in 1..(k - 1) : s[j] # LF
         IN  <<SubSeq(s, 1, i - 1)>> \o split(SubSeq(s, i + 1, Len(s)))

\* str::contains(char)
contains(s, c) == \E i \in 1..Len(s) : s[i] = c

\* content.contains("\r\n")
contains_crlf(s) == \E i \in 1..(Len(s) - 1) : s[i] = CR /\ s[i + 1] = LF

\* str::ends_with(char)
ends_with(s, c) == s # <<>> /\ s[Len(s)] = c

\* str::starts_with(&str)
starts_with(s, p) == Len(p) <= Len(s) /\ SubSeq(s, 1, Len(p)) = p

RECURSIVE trailing_newlines(_)
\* the count n of lines 164-171: trailing '\n' or '\r' characters
trailing_newlines(s) ==
    IF s = <<>> THEN 0
    ELSE IF s[Len(s)] \in {LF, CR}
         THEN 1 + trailing_newlines(SubSeq(s, 1, Len(s) - 1))
         ELSE 0

---------------------------------------------------------------------------
(* Issues and the detector *)

IssueType == {"TrailingWhitespace", "MissingNewline", "CrlfLineEnding",
              "MultipleBlankLinesEof"}

Message(t) ==
    CASE t = "TrailingWhitespace" -> "Trailing whitespace"
      [] t = "MissingNewline" -> "Missing newline at end of file"
      [] t = "CrlfLineEnding" -> "Contains CRLF line endings"
      [] t = "MultipleBlankLinesEof" -> "Multiple blank lines at end of file"

Issue(t, line, file) ==
    [issue_type |-> t, line |-> line, file |-> file, message |-> Message(t)]

RECURSIVE IssuesAt(_, _, _, _, _)
\* one issue of type t per index of i..n that is in hits, in index order
IssuesAt(t, file, i, n, hits) ==
    IF i > n THEN <<>>
    ELSE (IF i \in hits THEN <<Issue(t, i, file)>> ELSE <<>>)
         \o IssuesAt(t, file, i + 1, n, hits)

\* lines 123-132: every segment but the last
TrailingWhitespaceBody(path, lines) ==
    LET hits == {i \in 1..Len(lines) : Len(trim_end(lines[i])) # Len(lines[i])}
    IN  IssuesAt("TrailingWhitespace", path, 1, Len(lines) - 1, hits)

\* TrailingWhitespaceLast left out: the loop of lines 123-132 alone
TrailingWhitespaceLast_Omitted(path, lines) == <<>>

\* lines 133-142: the last segment
TrailingWhitespaceLast(path, lines) ==
    LET last == lines[Len(lines)]
    IN  IF Len(trim_end(last)) # Len(last)
        THEN <<Issue("TrailingWhitespace", Len(lines), path)>>
        ELSE <<>>

\* lines 143-150
MissingNewlineCheck(path, text, lines) ==
    IF ~ends_with(text, LF)
    THEN <<Issue("MissingNewline", Len(lines), path)>>
    ELSE <<>>

\* CrlfCheck reporting only the segments that end in a carriage return
\* before a line-feed
CrlfCheck_OnlyLineEndings(path, text, lines) ==
    IF contains_crlf(text)
    THEN LET hits == {i \in 1..(Len(lines) - 1) : ends_with(lines[i], CR)}
         IN  IssuesAt("CrlfLineEnding", path, 1, Len(lines), hits)
    ELSE <<>>

\* lines 151-162
CrlfCheck(path, text, lines) ==
    IF contains_crlf(text)
    THEN LET hits == {i \in 1..Len(lines) : contains(lines[i], CR)}
         IN  IssuesAt("CrlfLineEnding", path, 1, Len(lines), hits)
    ELSE <<>>

RECURSIVE trailing_line_feeds(_)
\* trailing '\n' characters only
trailing_line_feeds(s) ==
    IF s = <<>> THEN 0
    ELSE IF s[Len(s)] = LF
         THEN 1 + trailing_line_feeds(SubSeq(s, 1, Len(s) - 1))
         ELSE 0

\* BlankLinesEofCheck counting line-feeds only, not carriage returns
BlankLinesEofCheck_LineFeedsOnly(path, text, lines) ==
    IF text # <<>> /\ trailing_line_feeds(text) > 1
    THEN <<Issue("MultipleBlankLinesEof", Len(lines), path)>>
    ELSE <<>>

\* BlankLinesEofCheck with the threshold off by one (n > 0)
BlankLinesEofCheck_OffByOne(path, text, lines) ==
    IF text # <<>> /\ trailing_newlines(text) > 0
    THEN <<Issue("MultipleBlankLinesEof", Len(lines), path)>>
    ELSE <<>>

\* lines 163-180
BlankLinesEofCheck(path, text, lines) ==
    IF text # <<>> /\ trailing_newlines(text) > 1
    THEN <<Issue("MultipleBlankLinesEof", Len(lines), path)>>
    ELSE <<>>

\* fn lint_file
lint_file(path, text) ==
    LET lines == split(text)
    IN  TrailingWhitespaceBody(path, lines)
        \o TrailingWhitespaceLast(path, lines)
        \o MissingNewlineCheck(path, text, lines)
        \o CrlfCheck(path, text, lines)
        \o BlankLinesEofCheck(path, text, lines)

---------------------------------------------------------------------------
(* Paths and the ignore matcher *)

SEP == "/"

\* Path::join
join(dir, name) == dir \o <<SEP>> \o name

RECURSIVE file_name(_)
\* PathBuf::from(path).file_name().unwrap_or_default(): the final segment
file_name(path) ==
    IF ~contains(path, SEP) THEN path
    ELSE file_name(Tail(path))

\* glob::Pattern::new(pat).is_ok().  The modelled pattern language has
\* literals, "?", "*" and "[": a "[" that no later "]" closes is the
\* PatternError of the glob crate.
PatternValid(pat) ==
    \A i \in 1..Len(pat) :
        pat[i] = "[" => \E j \in (i + 2)..Len(pat) : pat[j] = "]"

RECURSIVE matches(_, _)
\* glob::Pattern::matches with the default MatchOptions: "*" and "?" also
\* match the separator
matches(pat, s) ==
    IF pat = <<>> THEN s = <<>>
    ELSE IF pat[1] = "*"
         THEN \E k \in 0..Len(s) : matches(Tail(pat), SubSeq(s, k + 1, Len(s)))
    ELSE IF pat[1] = "?"
         THEN s # <<>> /\ matches(Tail(pat), Tail(s))
    ELSE s # <<>> /\ s[1] = pat[1] /\ matches(Tail(pat), Tail(s))

RECURSIVE should_ignore(_, _)
\* fn should_ignore: "Ok(true)", "Ok(false)" or "Err"; each pattern is
\* compiled when the loop reaches it
should_ignore(path, pats) ==
    IF pats = <<>> THEN "Ok(false)"
    ELSE IF ~PatternValid(Head(pats)) THEN "Err"
    ELSE IF matches(Head(pats), path) THEN "Ok(true)"
    ELSE IF matches(Head(pats), file_name(path)) THEN "Ok(true)"
    ELSE should_ignore(path, Tail(pats))

---------------------------------------------------------------------------
(* The run: configuration and environment *)

\* fn is_git_repo: dir.join(".git").exists()
is_git_repo(f, dir) == f[dir].marker

\* use_git with --git=false treated like an unset --git
use_git_FalseIsUnset(c, f, dir) ==
    CASE c.git = "unset" -> is_git_repo(f, dir)
      [] c.git = "true" -> TRUE
      [] c.git = "false" -> is_git_repo(f, dir)

\* lines 193-197: the tri-state --git against the marker of the root
use_git(c, f, dir) ==
    CASE c.git = "unset" -> is_git_repo(f, dir)
      [] c.git = "true" -> TRUE
      [] c.git = "false" -> FALSE

\* fn git_tracked_files, the Ok branch: every line of `git ls-files`
\* joined with the root
git_tracked_files(f, dir) == {join(dir, l) : l \in f[dir].ls}

NoFilter == [some |-> FALSE, files |-> {}]
Some(files) == [some |-> TRUE, files |-> files]

\* the walk entries of a root, in walk order (lines 202-205: regular files only)
Walk(f, dir) == f[dir].walk

\* entry.path(): the root joined with the entry's relative name
EntryPath(dir, entry) == join(dir, entry.name)

\* fs::read_to_string: fails for a file that cannot be read and for bytes
\* that are not UTF-8
ReadOk(entry) == entry.read = "ok"

\* lines 207-237, the decision of one loop iteration
FileStep(c, tracked, path, entry) ==
    IF tracked.some /\ path \notin tracked.files THEN "untracked"
    ELSE LET r == should_ignore(path, c.ignore)
         IN  IF r = "Ok(true)" THEN "ignored"
             ELSE IF r = "Err" THEN "invalid"
             ELSE IF ~ReadOk(entry) THEN "unreadable"
             ELSE "lint"

Event(ev, d, file) == [ev |-> ev, dir |-> d, file |-> file]

CurDir == cli.dirs[di]
CurEntry == Walk(fs, CurDir)[fi]
CurPath == EntryPath(CurDir, CurEntry)
CurStep == FileStep(cli, tracked_files, CurPath, CurEntry)

---------------------------------------------------------------------------
(* The run: the scan loop of main(), lines 188-239 *)

\* lines 189-191
DirNotFound ==
    /\ pc = "dir"
    /\ ~fs[CurDir].exists
    /\ outcome' = "Directory not found"
    /\ pc' = "done"
    /\ UNCHANGED <<lintVars, ignoreVars, cli, fs, di, fi, tracked_files, all_issues, pending,
                   written, dest, log>>

\* lines 192-199 with use_git false: the walk starts unfiltered
EnterDir ==
    /\ pc = "dir"
    /\ fs[CurDir].exists
    /\ ~use_git(cli, fs, CurDir)
    /\ tracked_files' = NoFilter
    /\ fi' = 1
    /\ pc' = "walk"
    /\ log' = Append(log, Event("walk", di, <<>>))
    /\ UNCHANGED <<lintVars, ignoreVars, cli, fs, di, all_issues, pending, written, dest, outcome>>

\* lines 199-201, `git ls-files` succeeded
TrackedQueryOk ==
    /\ pc = "dir"
    /\ fs[CurDir].exists
    /\ use_git(cli, fs, CurDir)
    /\ fs[CurDir].ls_ok
    /\ tracked_files' = Some(git_tracked_files(fs, CurDir))
    /\ fi' = 1
    /\ pc' = "walk"
    /\ log' = log \o <<Event("query", di, <<>>), Event("walk", di, <<>>)>>
    /\ UNCHANGED <<lintVars, ignoreVars, cli, fs, di, all_issues, pending, written, dest, outcome>>

\* TrackedQueryFail with the error swallowed: the walk goes on unfiltered
TrackedQueryFail_Swallowed ==
    /\ pc = "dir"
    /\ fs[CurDir].exists
    /\ use_git(cli, fs, CurDir)
    /\ ~fs[CurDir].ls_ok
    /\ tracked_files' = NoFilter
    /\ fi' = 1
    /\ pc' = "walk"
    /\ log' = log \o <<Event("query_failed", di, <<>>), Event("walk", di, <<>>)>>
    /\ UNCHANGED <<lintVars, ignoreVars, cli, fs, di, all_issues, pending,
                   written, dest, outcome>>

\* lines 199-201 and 80-93, `git ls-files` failed: `?` returns the error
TrackedQueryFail ==
    /\ pc = "dir"
    /\ fs[CurDir].exists
    /\ use_git(cli, fs, CurDir)
    /\ ~fs[CurDir].ls_ok
    /\ outcome' = "git ls-files failed"
    /\ pc' = "done"
    /\ log' = Append(log, Event("query_failed", di, <<>>))
    /\ UNCHANGED <<lintVars, ignoreVars, cli, fs, di, fi, tracked_files, all_issues, pending,
                   written, dest>>

\* lines 209-213
SkipUntracked ==
    /\ pc = "walk"
    /\ fi <= Len(Walk(fs, CurDir))
    /\ CurStep = "untracked"
    /\ fi' = fi + 1
    /\ log' = Append(log, Event("untracked", di, CurPath))
    /\ UNCHANGED <<lintVars, ignoreVars, cli, fs, pc, di, tracked_files, all_issues, pending,
                   written, dest, outcome>>

\* lines 214-215
SkipIgnored ==
    /\ pc = "walk"
    /\ fi <= Len(Walk(fs, CurDir))
    /\ CurStep = "ignored"
    /\ fi' = fi + 1
    /\ log' = Append(log, Event("ignored", di, CurPath))
    /\ UNCHANGED <<lintVars, ignoreVars, cli, fs, pc, di, tracked_files, all_issues, pending,
                   written, dest, outcome>>

\* lines 217-220: std::process::exit(1)
InvalidPattern ==
    /\ pc = "walk"
    /\ fi <= Len(Walk(fs, CurDir))
    /\ CurStep = "invalid"
    /\ outcome' = "Invalid glob pattern"
    /\ pc' = "done"
    /\ log' = Append(log, Event("invalid", di, CurPath))
    /\ UNCHANGED <<lintVars, ignoreVars, cli, fs, di, fi, tracked_files, all_issues, pending,
                   written, dest>>

\* SkipUnreadable with the failed read taken as empty content
\* (read_to_string(path).unwrap_or_default())
SkipUnreadable_ReadAsEmpty ==
    /\ pc = "walk"
    /\ fi <= Len(Walk(fs, CurDir))
    /\ CurStep = "unreadable"
    /\ all_issues' = all_issues \o lint_file(CurPath, <<>>)
    /\ fi' = fi + 1
    /\ log' = log \o <<Event("read_failed", di, CurPath), Event("lint", di, CurPath)>>
    /\ UNCHANGED <<lintVars, ignoreVars, cli, fs, pc, di, tracked_files,
                   pending, written, dest, outcome>>

\* lines 222-228: warn and continue
SkipUnreadable ==
    /\ pc = "walk"
    /\ fi <= Len(Walk(fs, CurDir))
    /\ CurStep = "unreadable"
    /\ fi' = fi + 1
    /\ log' = Append(log, Event("read_failed", di, CurPath))
    /\ UNCHANGED <<lintVars, ignoreVars, cli, fs, pc, di, tracked_files, all_issues, pending,
                   written, dest, outcome>>

\* LintFile that drops the issues of a file the collection already holds
LintFile_Dedup ==
    /\ pc = "walk"
    /\ fi <= Len(Walk(fs, CurDir))
    /\ CurStep = "lint"
    /\ all_issues' =
           IF \E k \in DOMAIN all_issues : all_issues[k].file = CurPath
           THEN all_issues
           ELSE all_issues \o lint_file(CurPath, CurEntry.content)
    /\ fi' = fi + 1
    /\ log' = Append(log, Event("lint", di, CurPath))
    /\ UNCHANGED <<lintVars, ignoreVars, cli, fs, pc, di, tracked_files,
                   pending, written, dest, outcome>>

\* lines 222-237 for a readable file: all_issues.extend(lint_file(..))
LintFile ==
    /\ pc = "walk"
    /\ fi <= Len(Walk(fs, CurDir))
    /\ CurStep = "lint"
    /\ all_issues' = all_issues \o lint_file(CurPath, CurEntry.content)
    /\ fi' = fi + 1
    /\ log' = Append(log, Event("lint", di, CurPath))
    /\ UNCHANGED <<lintVars, ignoreVars, cli, fs, pc, di, tracked_files, pending, written, dest,
                   outcome>>

\* the walk of a root is exhausted: the next root, or the output phase
EndDir ==
    /\ pc = "walk"
    /\ fi > Len(Walk(fs, CurDir))
    /\ di' = di + 1
    /\ pc' = IF di + 1 > Len(cli.dirs) THEN "open" ELSE "dir"
    /\ UNCHANGED <<lintVars, ignoreVars, cli, fs, fi, tracked_files, all_issues, pending, written,
                   dest, outcome, log>>

---------------------------------------------------------------------------
(* The scan loop as a function of the configuration and the file system *)

ScanFatal == {"Directory not found", "git ls-files failed", "Invalid glob pattern"}

ScanResult(iss, err) == [issues |-> iss, err |-> err]

RECURSIVE ScanWalk(_, _, _, _, _)
\* lines 202-238: the entries of one root, from the issues collected so far
ScanWalk(c, dir, tracked, entries, iss) ==
    IF entries = <<>> THEN ScanResult(iss, "none")
    ELSE LET entry == Head(entries)
             path == EntryPath(dir, entry)
             step == FileStep(c, tracked, path, entry)
         IN  IF step = "invalid" THEN ScanResult(iss, "Invalid glob pattern")
             ELSE IF step = "lint"
                  THEN ScanWalk(c, dir, tracked, Tail(entries),
                                iss \o lint_file(path, entry.content))
             ELSE ScanWalk(c, dir, tracked, Tail(entries), iss)

RECURSIVE ScanDirs(_, _, _, _)
\* lines 188-239: the roots in input order
ScanDirs(c, f, dirs, iss) ==
    IF dirs = <<>> THEN ScanResult(iss, "none")
    ELSE LET dir == Head(dirs)
         IN  IF ~f[dir].exists THEN ScanResult(iss, "Directory not found")
             ELSE IF use_git(c, f, dir) /\ ~f[dir].ls_ok
                  THEN ScanResult(iss, "git ls-files failed")
             ELSE LET tracked == IF use_git(c, f, dir)
                                 THEN Some(git_tracked_files(f, dir))
                                 ELSE NoFilter
                      r == ScanWalk(c, dir, tracked, Walk(f, dir), iss)
                  IN  IF r.err # "none" THEN r
                      ELSE ScanDirs(c, f, Tail(dirs), r.issues)

\* the scan of a whole run
Scan(c, f) == ScanDirs(c, f, c.dirs, <<>>)

---------------------------------------------------------------------------
(* The run: the report, lines 241-306 *)

Chunk(k, file, line, text, message) ==
    [k |-> k, file |-> file, line |-> line, text |-> text, message |-> message]

\* lines 260-262 and 270-272: i.message = None for every issue
StripMessages(iss) ==
    [i \in DOMAIN iss |-> [iss[i] EXCEPT !.message = None]]

\* #[serde(rename_all = "snake_case")] of IssueType
SnakeCase(t) ==
    CASE t = "TrailingWhitespace" -> "trailing_whitespace"
      [] t = "MissingNewline" -> "missing_newline"
      [] t = "CrlfLineEnding" -> "crlf_line_ending"
      [] t = "MultipleBlankLinesEof" -> "multiple_blank_lines_eof"

\* one serialized Issue: type, line, file, and message unless it is None
Item(k, i) == Chunk(k, i.file, i.line, SnakeCase(i.issue_type), i.message)

\* serde_json::to_writer_pretty(&mut out, &all_issues), line 263
JsonReport(iss) ==
    IF iss = <<>> THEN <<Chunk("json", <<>>, 0, "[]", None)>>
    ELSE <<Chunk("json", <<>>, 0, "[", None)>>
         \o [i \in DOMAIN iss |-> Item("json_item", iss[i])]
         \o <<Chunk("json", <<>>, 0, "]", None)>>

\* serde_yaml::to_writer(&mut out, &all_issues), line 273
YamlReport(iss) ==
    IF iss = <<>> THEN <<Chunk("yaml", <<>>, 0, "[]", None)>>
    ELSE [i \in DOMAIN iss |-> Item("yaml_item", iss[i])]

RECURSIVE FileSections(_, _)
\* lines 282-299: the issues of one root, a heading at each change of file
FileSections(iss, cur_file) ==
    IF iss = <<>> THEN <<>>
    ELSE LET issue == Head(iss)
         IN  (IF issue.file # cur_file
              THEN (IF cur_file # <<>> THEN <<Chunk("blank", <<>>, 0, "", None)>>
                    ELSE <<>>)
                   \o <<Chunk("heading", issue.file, 0, "## ", None)>>
              ELSE <<>>)
             \o <<Chunk("bullet", issue.file, issue.line, "- **Line:**",
                        IF issue.message = None THEN "" ELSE issue.message)>>
             \o FileSections(Tail(iss), issue.file)

\* lines 280-301, one iteration: the issues whose file starts with the
\* root's string, then a blank line
DirSection(dir, iss) ==
    LET Under(i) == starts_with(i.file, dir)
    IN  FileSections(SelectSeq(iss, Under), <<>>)
        \o <<Chunk("blank", <<>>, 0, "", None)>>

RECURSIVE DirSections(_, _)
DirSections(dirs, iss) ==
    IF dirs = <<>> THEN <<>>
    ELSE DirSection(Head(dirs), iss) \o DirSections(Tail(dirs), iss)

\* lines 279-305
DefaultReport(dirs, iss) ==
    <<Chunk("title", <<>>, 0, "# Clean report", None)>>
    \o DirSections(dirs, iss)
    \o (IF iss = <<>> THEN <<Chunk("notice", <<>>, 0, "No lint issues found.", None)>>
        ELSE <<>>)

\* lines 259-305: --json is tested first, then --yaml
Report(c, iss) ==
    IF c.json THEN JsonReport(StripMessages(iss))
    ELSE IF c.yaml THEN YamlReport(StripMessages(iss))
    ELSE DefaultReport(c.dirs, iss)

\* lines 256-258: no --output, the report goes to stdout
OpenStdout ==
    /\ pc = "open"
    /\ cli.output = "none"
    /\ pc' = "render"
    /\ UNCHANGED <<lintVars, ignoreVars, cli, fs, di, fi, tracked_files, all_issues, pending,
                   written, dest, outcome, log>>

\* OpenFile with the destination also created before a root is scanned
OpenFile_BeforeScan ==
    \/ /\ pc = "open"
       /\ cli.output \in {"file", "flaky"}
       /\ dest' = "truncated"
       /\ pc' = "render"
       /\ UNCHANGED <<lintVars, ignoreVars, cli, fs, di, fi, tracked_files,
                      all_issues, pending, written, outcome, log>>
    \/ /\ pc = "dir"
       /\ cli.output \in {"file", "flaky"}
       /\ dest = "untouched"
       /\ dest' = "truncated"
       /\ UNCHANGED <<lintVars, ignoreVars, cli, fs, pc, di, fi,
                      tracked_files, all_issues, pending, written, outcome,
                      log>>

\* lines 241-243: fs::File::create succeeded, the file is truncated
OpenFile ==
    /\ pc = "open"
    /\ cli.output \in {"file", "flaky"}
    /\ dest' = "truncated"
    /\ pc' = "render"
    /\ UNCHANGED <<lintVars, ignoreVars, cli, fs, di, fi, tracked_files, all_issues, pending,
                   written, outcome, log>>

\* OpenFail with a fallback to stdout instead of the error
OpenFail_FallsBackToStdout ==
    /\ pc = "open"
    /\ cli.output \in {"dir", "noperm"}
    /\ pc' = "render"
    /\ UNCHANGED <<lintVars, ignoreVars, cli, fs, di, fi, tracked_files,
                   all_issues, pending, written, dest, outcome, log>>

\* lines 244-254: fs::File::create failed
OpenFail ==
    /\ pc = "open"
    /\ cli.output \in {"dir", "noperm"}
    /\ outcome' = IF cli.output = "dir" THEN "output path is a directory"
                  ELSE "failed to write output file"
    /\ pc' = "done"
    /\ log' = Append(log, Event("open_failed", 0, <<>>))
    /\ UNCHANGED <<lintVars, ignoreVars, cli, fs, di, fi, tracked_files,
                   all_issues, pending, written, dest>>

\* lines 259-262, 269-272, 279: the format is chosen, the messages are
\* stripped for the structured formats
Render ==
    /\ pc = "render"
    /\ all_issues' = IF cli.json \/ cli.yaml THEN StripMessages(all_issues)
                     ELSE all_issues
    /\ pending' = Report(cli, all_issues)
    /\ pc' = "write"
    /\ UNCHANGED <<lintVars, ignoreVars, cli, fs, di, fi, tracked_files, written, dest, outcome, log>>

\* one write to the destination succeeded
WriteChunk ==
    /\ pc = "write"
    /\ pending # <<>>
    /\ written' = Append(written, Head(pending))
    /\ pending' = Tail(pending)
    /\ UNCHANGED <<lintVars, ignoreVars, cli, fs, pc, di, fi, tracked_files, all_issues, dest,
                   outcome, log>>

\* one write to the destination failed: `?` returns the error
WriteFail ==
    /\ pc = "write"
    /\ pending # <<>>
    /\ cli.output = "flaky"
    /\ outcome' = "write failed"
    /\ pc' = "done"
    /\ log' = Append(log, Event("write_failed", 0, <<>>))
    /\ UNCHANGED <<lintVars, ignoreVars, cli, fs, di, fi, tracked_files,
                   all_issues, pending, written, dest>>

\* Finish with the outcome decided before the report is complete
Finish_BeforeReportComplete ==
    /\ pc = "write"
    /\ outcome' = IF all_issues = <<>> THEN "ok" ELSE "issues found"
    /\ pc' = "done"
    /\ UNCHANGED <<lintVars, ignoreVars, cli, fs, di, fi, tracked_files,
                   all_issues, pending, written, dest, log>>

\* lines 264-267, 274-277, 302-306: after the last write
Finish ==
    /\ pc = "write"
    /\ pending = <<>>
    /\ outcome' = IF all_issues = <<>> THEN "ok" ELSE "issues found"
    /\ pc' = "done"
    /\ UNCHANGED <<lintVars, ignoreVars, cli, fs, di, fi, tracked_files, all_issues, pending,
                   written, dest, log>>

\* the exit status of the process
ExitCode == IF outcome = "ok" THEN 0 ELSE 1

---------------------------------------------------------------------------
(* Inputs of the run *)

SeqsUpTo(S, lo, hi) == UNION {[1..k -> S] : k \in lo..hi}

P == <<"p">>
PQ == <<"p", "q">>
M == <<"m">>
Roots == {P, PQ, M}

A == <<"a">>
B == <<"b">>

Clean == <<"a", LF>>
Dirty == <<"a", " ", LF>>
NoNewline == <<"a">>
Crlf == <<"a", CR, LF>>
Empty == <<>>
CrlfNoNewline == <<"a", CR, LF, "a">>

Entry(name, read, text) == [name |-> name, read |-> read, content |-> text]

\* what a walk of root P may find
WalksOfP ==
    { <<>>,
      <<Entry(A, "ok", Dirty)>>,
      <<Entry(A, "ok", Empty)>>,
      <<Entry(A, "denied", <<>>)>>,
      <<Entry(A, "ok", Dirty), Entry(B, "ok", NoNewline)>>,
      <<Entry(A, "denied", <<>>), Entry(B, "ok", NoNewline)>>,
      <<Entry(A, "invalid_utf8", <<>>), Entry(B, "ok", NoNewline)>>,
      <<Entry(A, "ok", Clean), Entry(B, "ok", Clean)>>,
      <<Entry(A, "ok", Dirty), Entry(B, "denied", <<>>)>>,
      <<Entry(A, "ok", Crlf), Entry(B, "ok", Dirty)>>,
      <<Entry(A, "ok", CrlfNoNewline)>> }

\* the repository state of root P: the marker, and what `git ls-files` does
GitOfP ==
    { [marker |-> FALSE, ls_ok |-> FALSE, ls |-> {}],
      [marker |-> TRUE, ls_ok |-> FALSE, ls |-> {}],
      [marker |-> TRUE, ls_ok |-> TRUE, ls |-> {A}],
      [marker |-> FALSE, ls_ok |-> TRUE, ls |-> {B}],
      [marker |-> TRUE, ls_ok |-> TRUE, ls |-> {A, B}] }

Dir(g, walk) ==
    [exists |-> TRUE, marker |-> g.marker, ls_ok |-> g.ls_ok, ls |-> g.ls,
     walk |-> walk]

\* root PQ: no repository; root M: does not exist
DirPQ == Dir([marker |-> FALSE, ls_ok |-> FALSE, ls |-> {}],
             <<Entry(A, "ok", Dirty)>>)
DirM == [exists |-> FALSE, marker |-> FALSE, ls_ok |-> FALSE, ls |-> {},
         walk |-> <<>>]

FileSystems ==
    { [r \in Roots |-> IF r = P THEN Dir(g, w) ELSE IF r = PQ THEN DirPQ ELSE DirM] :
        g \in GitOfP, w \in WalksOfP }

\* ignore patterns: a base name, a full path, an unclosed bracket
PatA == <<"a">>
PatUnderP == <<"p", "/", "*">>
PatBad == <<"[">>

IgnoreLists ==
    { <<>>, <<PatA>>, <<PatBad>>, <<PatA, PatBad>>, <<PatBad, PatA>>,
      <<PatUnderP, PatBad>> }

Outputs == {"none", "file", "dir", "noperm", "flaky"}
GitPrefs == {"unset", "true", "false"}

Cli(json, yaml, ignore, output, dirs, git) ==
    [json |-> json, yaml |-> yaml, ignore |-> ignore, output |-> output,
     dirs |-> dirs, git |-> git]

\* runs that vary the scan: roots, tracking, ignore list, file system
ScanInputs ==
    { <<Cli(j, FALSE, ig, o, ds, g), f>> :
        j \in BOOLEAN, o \in {"none", "file"},
        ig \in IgnoreLists, ds \in SeqsUpTo(Roots, 1, MaxDirs),
        g \in GitPrefs, f \in FileSystems }

\* runs that vary the report: format, destination, roots, issues
ReportInputs ==
    { <<Cli(j, y, <<>>, o, ds, "false"), f>> :
        j \in BOOLEAN, y \in BOOLEAN, o \in Outputs,
        ds \in {<<P>>, <<P, PQ>>, <<PQ, P>>, <<P, P>>},
        f \in {x \in FileSystems : ~x[P].marker /\ ~x[P].ls_ok} }

IdleIgnore == ipath = <<>> /\ ignores = <<>> /\ verdict = "none"
IdleRun ==
    /\ cli = Cli(FALSE, FALSE, <<>>, "none", <<>>, "unset")
    /\ fs = [r \in Roots |-> DirM]
    /\ di = 1
    /\ fi = 1
    /\ tracked_files = NoFilter
    /\ all_issues = <<>>
    /\ pending = <<>>
    /\ written = <<>>
    /\ dest = "untouched"
    /\ outcome = "running"
    /\ log = <<>>

\* main() after Cli::parse(), line 187
Init ==
    /\ \E in \in ScanInputs \cup ReportInputs : cli = in[1] /\ fs = in[2]
    /\ pc = "dir"
    /\ di = 1
    /\ fi = 1
    /\ tracked_files = NoFilter
    /\ all_issues = <<>>
    /\ pending = <<>>
    /\ written = <<>>
    /\ dest = "untouched"
    /\ outcome = "running"
    /\ log = <<>>
    /\ content = <<>>
    /\ issues = <<>>
    /\ IdleIgnore

Next ==
    \/ DirNotFound
    \/ EnterDir
    \/ TrackedQueryOk
    \/ TrackedQueryFail
    \/ SkipUntracked
    \/ SkipIgnored
    \/ InvalidPattern
    \/ SkipUnreadable
    \/ LintFile
    \/ EndDir
    \/ OpenStdout
    \/ OpenFile
    \/ OpenFail
    \/ Render
    \/ WriteChunk
    \/ WriteFail
    \/ Finish

Spec == Init /\ [][Next]_vars

---------------------------------------------------------------------------
(* lint_file on every bounded content *)

Contents == SeqsUpTo(Chars, 0, MaxLen)

InitLint ==
    /\ content \in Contents
    /\ issues = <<>>
    /\ pc = "call"
    /\ IdleRun
    /\ IdleIgnore

\* one call lint_file(path, content)
Lint ==
    /\ pc = "call"
    /\ issues' = lint_file(A, content)
    /\ pc' = "returned"
    /\ UNCHANGED <<content, cli, fs, di, fi, tracked_files, all_issues, pending,
                   written, dest, outcome, log, ignoreVars>>

NextLint == Lint

SpecLint == InitLint /\ [][NextLint]_vars

---------------------------------------------------------------------------
(* should_ignore on bounded paths and pattern lists *)

PatB == <<"b">>
PatAny == <<"*">>
PatOne == <<"?">>
Patterns == {PatA, PatB, PatUnderP, PatAny, PatOne, PatBad}

IgnorePaths == {join(P, A), join(P, B), join(PQ, A), join(P, join(B, A)), A}

InitIgnore ==
    /\ ipath \in IgnorePaths
    /\ ignores \in SeqsUpTo(Patterns, 0, MaxIgnore)
    /\ verdict = "none"
    /\ pc = "call"
    /\ content = <<>>
    /\ issues = <<>>
    /\ IdleRun

\* one call should_ignore(path, ignores)
Ignore ==
    /\ pc = "call"
    /\ verdict' = should_ignore(ipath, ignores)
    /\ pc' = "returned"
    /\ UNCHANGED <<ipath, ignores, cli, fs, di, fi, tracked_files, all_issues,
                   pending, written, dest, outcome, log, lintVars>>

NextIgnore == Ignore

SpecIgnore == InitIgnore /\ [][NextIgnore]_vars

---------------------------------------------------------------------------
(* Properties *)

OutputFatal == {"output path is a directory", "failed to write output file",
                "write failed"}
Fatal == ScanFatal \cup OutputFatal

\* the scan loop has ended, normally or by a fatal error
ScanOver == pc \in {"open", "render", "write", "done"}

\* the error that ended the scan loop, if one did
ScanError == IF outcome \in ScanFatal THEN outcome ELSE "none"

\* The step-by-step scan and the scan as a function agree.
ScanAgreesWithRun ==
    pc \in {"open", "done"} =>
        LET r == Scan(cli, fs)
        IN  /\ r.err = ScanError
            /\ StripMessages(r.issues) = StripMessages(all_issues)

\* C1: a run that ends without a fatal error has written the complete
\* report of its format; it ends in failure ("issues found", exit 1) exactly
\* when all_issues is non-empty and in success (exit 0) when it is empty.
C1_ExitContract ==
    (pc = "done" /\ outcome \notin Fatal) =>
        /\ outcome \in {"ok", "issues found"}
        /\ written = Report(cli, all_issues)
        /\ pending = <<>>
        /\ (outcome = "issues found") <=> (all_issues # <<>>)
        /\ (ExitCode = 0) <=> (all_issues = <<>>)

C1_Witness ==
    /\ pc = "done"
    /\ outcome = "issues found"
    /\ cli.yaml
    /\ ~cli.json
    /\ Len(written) >= 2

\* C2: lint_file of zero-length content returns no issue.
C2_EmptyContentNoIssue ==
    (pc = "returned" /\ content = <<>>) => issues = <<>>

\* C3: a run whose ignore list holds an invalid pattern, and that no missing
\* root or tracking failure ended first, ends with the invalid-pattern error.
C3_InvalidPatternAborts ==
    (/\ pc = "done"
     /\ \E i \in 1..Len(cli.ignore) : ~PatternValid(cli.ignore[i])
     /\ outcome \notin {"Directory not found", "git ls-files failed"})
        => outcome = "Invalid glob pattern"

\* C4: when the run ends with the missing-directory error, no root has been
\* processed: no tracking query, walk, read or detection has happened.
C4_NoRootProcessedBeforeMissing ==
    outcome = "Directory not found" => log = <<>>

\* the tracked-status filter applies to the d-th root
Filtering(d) ==
    cli.git = "true" \/ (cli.git = "unset" /\ fs[cli.dirs[d]].marker)

\* the tracking system lists the path under the d-th root
Tracked(d, path) == \E l \in fs[cli.dirs[d]].ls : path = join(cli.dirs[d], l)

\* events of a file that passed the tracked-status filter
Candidate == {"ignored", "invalid", "read_failed", "lint"}

\* C5: the tracked-status filter is applied to a root exactly when --git is
\* true, or unset with a .git marker in the root; where it applies no
\* untracked file goes past it, and where it does not every walked file is a
\* scan candidate.
C5_TrackingFilter ==
    /\ \A i \in DOMAIN log :
        LET e == log[i]
        IN  /\ e.ev = "untracked" => Filtering(e.dir) /\ ~Tracked(e.dir, e.file)
            /\ (e.ev \in Candidate /\ Filtering(e.dir)) => Tracked(e.dir, e.file)
            /\ e.ev = "query" => Filtering(e.dir)
            /\ (e.ev = "walk" /\ Filtering(e.dir)) =>
                   i > 1 /\ log[i - 1] = Event("query", e.dir, <<>>)
    /\ \A d \in 1..Len(cli.dirs) :
        (d < di /\ ~Filtering(d)) =>
            \A k \in DOMAIN Walk(fs, cli.dirs[d]) :
                \E i \in DOMAIN log :
                    /\ log[i].dir = d
                    /\ log[i].ev \in Candidate
                    /\ log[i].file = EntryPath(cli.dirs[d], Walk(fs, cli.dirs[d])[k])

C5_Witness ==
    /\ cli.git = "unset"
    /\ \E i, j \in DOMAIN log :
        /\ log[i].ev = "untracked"
        /\ log[j].ev = "lint"
        /\ log[i].dir = log[j].dir

\* the tracked-file query of the d-th root is made and fails
QueryFails(d) ==
    fs[cli.dirs[d]].exists /\ Filtering(d) /\ ~fs[cli.dirs[d]].ls_ok

\* C6: the run never goes past a root whose tracked-file query fails: it
\* walks, reads and lints nothing of that root or of a later one, writes no
\* report, never ends in success, and ends with the query's error once it
\* has reached that root.
C6_TrackingFailureAborts ==
    \A d \in 1..Len(cli.dirs) :
        QueryFails(d) =>
            /\ di <= d
            /\ pc \in {"dir", "walk", "done"}
            /\ \A i \in DOMAIN log :
                   log[i].dir >= d => (log[i].dir = d /\ log[i].ev = "query_failed")
            /\ written = <<>>
            /\ outcome \notin {"ok", "issues found"}
            /\ (pc = "done" /\ di = d) => outcome = "git ls-files failed"

C6_Witness ==
    /\ outcome = "git ls-files failed"
    /\ cli.git = "unset"
    /\ di = 2
    /\ all_issues # <<>>

\* the orders of a pattern list
Orders(q) ==
    LET n == Len(q)
        Bij == {b \in [1..n -> 1..n] : \A x, y \in 1..n : x # y => b[x] # b[y]}
    IN  {[i \in 1..n |-> q[b[i]]] : b \in Bij}

\* some pattern of the list matches the path or its final segment
SomePatternMatches(path, pats) ==
    \E i \in 1..Len(pats) :
        /\ PatternValid(pats[i])
        /\ matches(pats[i], path) \/ matches(pats[i], file_name(path))

\* C7: should_ignore returns the same for every order of the pattern list,
\* excludes the path exactly when some pattern matches it or its final
\* segment, and excludes nothing for the empty list.
C7_OrderIndependent ==
    pc = "returned" =>
        /\ \A q \in Orders(ignores) : should_ignore(ipath, q) = verdict
        /\ (verdict = "Ok(true)") <=> SomePatternMatches(ipath, ignores)
        /\ ignores = <<>> => verdict = "Ok(false)"

\* C7 for lists of valid patterns only
C7_OrderIndependentValid ==
    (pc = "returned" /\ \A i \in 1..Len(ignores) : PatternValid(ignores[i])) =>
        /\ \A q \in Orders(ignores) : should_ignore(ipath, q) = verdict
        /\ (verdict = "Ok(true)") <=> SomePatternMatches(ipath, ignores)
        /\ ignores = <<>> => verdict = "Ok(false)"

\* C8: a destination that cannot be opened, or a write that fails, ends
\* the run with an output error, in every format and whatever the issues;
\* that error is not "issues found".
C8_OutputFailureIsFatal ==
    /\ (pc = "done" /\ cli.output \in {"dir", "noperm"} /\ outcome \notin ScanFatal)
           => /\ outcome \in {"output path is a directory",
                              "failed to write output file"}
              /\ written = <<>>
    /\ \A i \in DOMAIN log :
           log[i].ev \in {"open_failed", "write_failed"} =>
               /\ pc = "done"
               /\ outcome \in OutputFatal
               /\ outcome # "issues found"
               /\ ExitCode = 1

C8_Witness ==
    /\ outcome = "write failed"
    /\ ~cli.json
    /\ ~cli.yaml
    /\ all_issues # <<>>
    /\ written # <<>>

\* the file system without the file at `path` under `root`
WithoutPath(f, root, path) ==
    LET Keep(e) == EntryPath(root, e) # path
    IN  [f EXCEPT ![root].walk = SelectSeq(@, Keep)]

\* C9: a file whose read fails is not linted and adds no issue, and once
\* the scan has ended its issues and its error are those of the scan of the
\* same roots without that file.
C9_UnreadableFileSkipped ==
    /\ \A i \in DOMAIN log :
        log[i].ev = "lint" =>
            \E k \in DOMAIN Walk(fs, cli.dirs[log[i].dir]) :
                LET e == Walk(fs, cli.dirs[log[i].dir])[k]
                IN  EntryPath(cli.dirs[log[i].dir], e) = log[i].file /\ ReadOk(e)
    /\ \A i \in DOMAIN log :
        log[i].ev = "read_failed" =>
            /\ \A k \in DOMAIN all_issues : all_issues[k].file # log[i].file
            /\ ScanOver =>
                LET r == Scan(cli, WithoutPath(fs, cli.dirs[log[i].dir], log[i].file))
                IN  /\ r.err = ScanError
                    /\ StripMessages(r.issues) = StripMessages(all_issues)

C9_Witness ==
    /\ pc = "done"
    /\ outcome = "issues found"
    /\ \E i, j \in DOMAIN log :
        i < j /\ log[i].ev = "read_failed" /\ log[j].ev = "lint"

\* no line has trailing whitespace, the content ends with exactly one
\* line-feed and holds no carriage return
WellFormed(text) ==
    /\ text # <<>>
    /\ text[Len(text)] = LF
    /\ Len(text) > 1 => text[Len(text) - 1] # LF
    /\ \A i \in 1..Len(text) : text[i] # CR
    /\ \A i \in 1..(Len(text) - 1) :
           text[i] \in {" ", "\t"} => text[i + 1] # LF

\* C10: lint_file returns no issue for well-formed content.
C10_NoFalsePositive ==
    (pc = "returned" /\ WellFormed(content)) => issues = <<>>

C10_Witness ==
    /\ pc = "returned"
    /\ WellFormed(content)
    /\ Len(content) = MaxLen
    /\ \E i \in 1..Len(content) : content[i] = " "
    /\ \E i \in 1..(Len(content) - 1) : content[i] = LF

\* the number of issues of type t that lint_file returned for line n
Count(t, n) ==
    Cardinality({k \in DOMAIN issues :
                    issues[k].issue_type = t /\ issues[k].line = n})

\* the lines of the issues of type t, in the order lint_file returned them
LinesOf(t) ==
    LET Is(i) == i.issue_type = t
        sel == SelectSeq(issues, Is)
    IN  [k \in DOMAIN sel |-> sel[k].line]

\* strictly increasing
Increasing(q) == \A i, j \in DOMAIN q : i < j => q[i] < q[j]

\* the segment ends in a whitespace character
EndsInWhitespace(seg) == seg # <<>> /\ seg[Len(seg)] \in {" ", "\t", CR}

\* the number of line-feed-separated segments of the text
Segments(text) == 1 + Cardinality({i \in DOMAIN text : text[i] = LF})

\* C11: lint_file returns exactly one TrailingWhitespace issue for each
\* line-feed-separated segment that ends in whitespace (carriage return
\* included), at the segment's 1-based index, and none for any other
\* segment; the final segment is reported so when the content does not end
\* with a line-feed and never when it does.
C11_TrailingWhitespace ==
    pc = "returned" =>
        LET lines == split(content)
            n == Len(lines)
        IN  /\ n = Segments(content)
            /\ \A k \in DOMAIN issues : issues[k].line \in 1..n
            /\ \A i \in 1..n :
                   Count("TrailingWhitespace", i) =
                       IF EndsInWhitespace(lines[i]) THEN 1 ELSE 0
            /\ Increasing(LinesOf("TrailingWhitespace"))
            /\ ends_with(content, LF) => Count("TrailingWhitespace", n) = 0
            /\ (~ends_with(content, LF) /\ EndsInWhitespace(lines[n]))
                   => Count("TrailingWhitespace", n) = 1

C11_Witness ==
    /\ pc = "returned"
    /\ ~ends_with(content, LF)
    /\ LinesOf("TrailingWhitespace") = <<1, 2>>
    /\ Segments(content) = 2

\* C12: lint_file returns CrlfLineEnding issues only for content that holds
\* a carriage return directly followed by a line-feed; for such content it
\* returns exactly one per segment that holds a carriage return anywhere, at
\* the segment's 1-based index.
C12_CrlfLineEnding ==
    pc = "returned" =>
        LET lines == split(content)
            HasCrLf == \E i \in 1..(Len(content) - 1) :
                           content[i] = CR /\ content[i + 1] = LF
        IN  /\ ~HasCrLf => LinesOf("CrlfLineEnding") = <<>>
            /\ HasCrLf =>
                   /\ \A i \in 1..Len(lines) :
                          Count("CrlfLineEnding", i) =
                              IF \E k \in DOMAIN lines[i] : lines[i][k] = CR
                              THEN 1 ELSE 0
                   /\ Increasing(LinesOf("CrlfLineEnding"))

C12_Witness ==
    /\ pc = "returned"
    /\ LinesOf("CrlfLineEnding") = <<1, 2>>
    /\ Segments(content) = 2
    /\ content[Len(content)] # CR

\* the content ends in at least two characters that are line-feeds or
\* carriage returns
LongTrailingRun(text) ==
    /\ Len(text) >= 2
    /\ text[Len(text)] \in {LF, CR}
    /\ text[Len(text) - 1] \in {LF, CR}

\* C13: lint_file returns at most one MultipleBlankLinesEof issue, and
\* returns it exactly when the run of line-feeds and carriage returns at
\* the end of the content is longer than one character; its line is the
\* number of line-feed-separated segments.
C13_MultipleBlankLinesEof ==
    pc = "returned" =>
        /\ Len(LinesOf("MultipleBlankLinesEof")) <= 1
        /\ (LinesOf("MultipleBlankLinesEof") # <<>>) <=> LongTrailingRun(content)
        /\ LongTrailingRun(content) =>
               LinesOf("MultipleBlankLinesEof") = <<Segments(content)>>
        /\ content = <<"a", CR, LF>> =>
               LinesOf("MultipleBlankLinesEof") = <<2>>

C13_Witness ==
    /\ pc = "returned"
    /\ content = <<"a", LF, LF, LF>>
    /\ LinesOf("MultipleBlankLinesEof") = <<4>>

\* the files that reached the detector, in processing order
Linted ==
    LET IsLint(e) == e.ev = "lint"
    IN  SelectSeq(log, IsLint)

\* the position of a linted file in the walk of its root
WalkIndex(e) ==
    LET d == cli.dirs[e.dir]
    IN  CHOOSE k \in DOMAIN Walk(fs, d) : EntryPath(d, Walk(fs, d)[k]) = e.file

\* the detector's output for a linted file
Block(e) == lint_file(e.file, Walk(fs, cli.dirs[e.dir])[WalkIndex(e)].content)

RECURSIVE Blocks(_)
Blocks(events) ==
    IF events = <<>> THEN <<>>
    ELSE Block(Head(events)) \o Blocks(Tail(events))

\* roots in input order, files of one root in walk order
InProcessingOrder(events) ==
    \A i, j \in DOMAIN events :
        i < j => \/ events[i].dir < events[j].dir
                 \/ /\ events[i].dir = events[j].dir
                    /\ WalkIndex(events[i]) < WalkIndex(events[j])

Rank(t) ==
    CASE t = "TrailingWhitespace" -> 1
      [] t = "MissingNewline" -> 2
      [] t = "CrlfLineEnding" -> 3
      [] t = "MultipleBlankLinesEof" -> 4

\* inside every file's block: TrailingWhitespace, then MissingNewline, then
\* CrlfLineEnding, then MultipleBlankLinesEof
InDetectionOrder(events) ==
    \A e \in DOMAIN events :
        LET b == Block(events[e])
        IN  \A i, j \in DOMAIN b :
                i < j => Rank(b[i].issue_type) <= Rank(b[j].issue_type)

\* the structured report has been rendered
StructuredRendered ==
    /\ cli.json \/ cli.yaml
    /\ pc = "write" \/ outcome \in {"ok", "issues found", "write failed"}

FoundUnder(k) ==
    LET InRoot(e) == e.dir = k
    IN  Blocks(SelectSeq(Linted, InRoot))

RECURSIVE Groups(_)
\* one group per root from the k-th on: the root's own issues, one bullet
\* each, below a heading at each change of file, then a blank line
Groups(k) ==
    IF k > Len(cli.dirs) THEN <<>>
    ELSE FileSections(FoundUnder(k), <<>>)
         \o <<Chunk("blank", <<>>, 0, "", None)>>
         \o Groups(k + 1)

\* the number of bullet lines written
Bullets ==
    Cardinality({k \in DOMAIN written : written[k].k = "bullet"})

DefaultReportWritten ==
    /\ pc = "done"
    /\ ~cli.json /\ ~cli.yaml
    /\ outcome \in {"ok", "issues found"}

\* C15: in the default report the issues are grouped by root in input
\* order and every issue of all_issues is one bullet line, inside the group
\* of the root it was found under and below a heading of its file, for
\* every list of roots (a root listed twice, a root whose path string is a
\* prefix of another's).
C15_OneBulletPerIssue ==
    DefaultReportWritten =>
        /\ Bullets = Len(all_issues)
        /\ written = <<Chunk("title", <<>>, 0, "# Clean report", None)>>
                     \o Groups(1)
                     \o (IF all_issues = <<>>
                         THEN <<Chunk("notice", <<>>, 0,
                                      "No lint issues found.", None)>>
                         ELSE <<>>)

\* every root has been scanned completely
AllRootsScanned == di > Len(cli.dirs)

\* C16: the output destination is opened (created or truncated) and report
\* chunks are written only after every root has been scanned completely;
\* when the scan aborts with a fatal error (missing root, tracking-query
\* failure, invalid ignore pattern) the output file is left unchanged and
\* nothing is written, whatever was collected from earlier roots.
C16_OutputAfterScan ==
    /\ (dest # "untouched" \/ written # <<>> \/ pending # <<>>)
           => AllRootsScanned
    /\ outcome \in ScanFatal =>
           /\ ~AllRootsScanned
           /\ dest = "untouched"
           /\ written = <<>>
           /\ pending = <<>>

\* the second root is missing after the first root gave issues, and an
\* output file was asked for
C16_Witness ==
    /\ pc = "done"
    /\ outcome = "Directory not found"
    /\ cli.output = "file"
    /\ di = 2
    /\ all_issues # <<>>
    /\ dest = "untouched"
    /\ written = <<>>

=============================================================================
